---- MODULE Spec2Model ----
(***************************************************************************)
(* Model of the ETHUSDT 1-minute dataset builder (src/ethusdt_1min.py).    *)
(*                                                                         *)
(* Four specifications share the variables below:                          *)
(*   SpecDL  download_single_file and the as_completed loop of             *)
(*           fetch_binance_zip_parallel, one request at a time;            *)
(*   SpecOI  the open-interest polling loop of Step 5, one page at a time; *)
(*   SpecV   validate_data applied to a table, twice;                      *)
(*   Spec    the script itself, Step 1 to Step 7.                          *)
(* A timestamp is a minute number 1..MaxT.  The value fields of a row      *)
(* (open, high, ..., mark_close, fundingRate, ...) are carried as one      *)
(* opaque integer naming the archive row they were read from, so two rows  *)
(* with the same timestamp are still different rows.                       *)
(***************************************************************************)
EXTENDS Integers, Sequences, FiniteSets, TLC

VARIABLES
    \* ---- SpecDL
    dlHist,       \* per URL: the responses its requests got, in order
    dlState,      \* per URL: "running" | "done" (the future has a result)
    dlResult,     \* per URL: what download_single_file returned
    dlExc,        \* per URL: the future holds an exception
    dlLog,        \* URLs for which "Failed to download" was printed
    dlErrLog,     \* URLs for which "Error processing" was printed
    dlCollected,  \* URLs the as_completed loop has handled
    dlDfs,        \* dfs of fetch_binance_zip_parallel: URL of each batch
    dlPc,         \* "fetching" | "returned" | "raised"
    dlRet,        \* return value of fetch_binance_zip_parallel
    \* ---- SpecOI
    oiPc,         \* "polling" | "done"
    oiParams,     \* params: whether startTime is set, and its value
    oiPages,      \* the pages received so far
    oi_data,      \* oi_data: the chunks extended onto it
    oiRequests,   \* number of requests.get calls
    oiError,      \* the except branch was taken
    \* ---- SpecV
    vInput,       \* the table validate_data was first given
    vTable,       \* the table it last returned (the input before any run)
    vPrev,        \* the argument of the last run
    vRuns,        \* number of runs
    \* ---- Spec
    pc,           \* position of the script
    pending,      \* futures of the current fetch not yet completed
    dfs,          \* batches appended by the current fetch, in completion order
    rowsLeft,     \* rows the data source still has to serve
    klines,       \* every kline batch as appended: <<url, rows>>
    df,           \* primary OHLCV series (Step 1)
    mark,         \* mark price series or None (Step 2)
    index,        \* index price series or None (Step 3)
    funding,      \* funding rate series or None (Step 4)
    df_oi,        \* open interest series or None (Step 5)
    full,         \* the merged table (Step 6, Step 7)
    saved         \* the table written to OUTPUT_FILE, or None

dlVars == <<dlHist, dlState, dlResult, dlExc, dlLog, dlErrLog, dlCollected, dlDfs, dlPc, dlRet>>
oiVars == <<oiPc, oiParams, oiPages, oi_data, oiRequests, oiError>>
vVars == <<vInput, vTable, vPrev, vRuns>>
pipeVars == <<pc, pending, dfs, rowsLeft, klines, df, mark, index, funding, df_oi, full, saved>>
vars == <<dlVars, oiVars, vVars, pipeVars>>

(***************************************************************************)
(* Bounds of the model and constants of the program.                       *)
(***************************************************************************)
\* Number of monthly archive URLs of one series (month_range yields one per month).
NumUrls == 2
\* Timestamps are minutes 1..MaxT.
MaxT == 3
\* Longest table given to validate_data in SpecV.
MaxLen == 3
\* Pages after which the model stops following the open-interest loop.
MaxPages == 4
\* RETRY_ATTEMPTS
RETRY_ATTEMPTS == 3
\* params["limit"], and the 500 of `len(data) < 500`
PAGE_LIMIT == 500
\* the 60_000 added to the last timestamp
MINUTE_MS == 60000
\* NaN: a cell pandas leaves empty (to_numeric errors='coerce', a left join's miss)
NaN == 0
\* an open_time cell holding text: the header line of a provider CSV read
\* with header=None
HeaderCell == -1

Urls == 1..NumUrls
Timestamps == 1..MaxT

\* Python's None for a DataFrame-or-None variable, and a DataFrame of `rows`.
None == [present |-> FALSE, cols |-> {}, rows |-> <<>>]
Frame(cols, rows) == [present |-> TRUE, cols |-> cols, rows |-> rows]

(***************************************************************************)
(* download_single_file                                                    *)
(***************************************************************************)
NoContent == "None"
Bodies == {"zip", "corrupt", ""}
Responses ==
    [kind : {"status"}, code : {200}, body : Bodies]
    \cup [kind : {"status"}, code : {404, 500}, body : {""}]
    \cup [kind : {"exception"}, code : {0}, body : {""}]

\* (DownloadAttempt with `range(retries - 1)`: one attempt fewer)
DownloadAttemptOneRetryLess(attempt, retries, resp) ==
    IF resp.kind = "status"
    THEN IF resp.code = 200
         THEN [done |-> TRUE, result |-> resp.body, log |-> FALSE, raise |-> FALSE]
         ELSE IF resp.code = 404
         THEN [done |-> TRUE, result |-> NoContent, log |-> FALSE, raise |-> FALSE]
         ELSE [done |-> attempt >= retries - 2, result |-> NoContent,
               log |-> FALSE, raise |-> FALSE]
    ELSE [done |-> attempt >= retries - 2, result |-> NoContent,
          log |-> attempt >= retries - 2, raise |-> FALSE]

\* One iteration of `for attempt in range(retries)` whose request got `resp`:
\* whether the function returns, what it returns, whether it prints, and
\* whether an exception leaves it.
DownloadAttempt(attempt, retries, resp) ==
    IF resp.kind = "status"
    THEN IF resp.code = 200
         THEN [done |-> TRUE, result |-> resp.body, log |-> FALSE, raise |-> FALSE]
         ELSE IF resp.code = 404
         THEN [done |-> TRUE, result |-> NoContent, log |-> FALSE, raise |-> FALSE]
         \* time.sleep(0.5 * (attempt + 1)); after the last attempt the loop
         \* ends and line 43 returns None, printing nothing
         ELSE [done |-> attempt = retries - 1, result |-> NoContent,
               log |-> FALSE, raise |-> FALSE]
    \* except Exception: the last attempt prints and returns None, the
    \* others sleep 1 * (attempt + 1) and go round again
    ELSE [done |-> attempt = retries - 1, result |-> NoContent,
          log |-> attempt = retries - 1, raise |-> FALSE]

\* `if content:` is false for None and for an empty body
Truthy(content) == content # NoContent /\ content # ""

InitDL ==
    /\ dlHist = [u \in Urls |-> <<>>]
    /\ dlState = [u \in Urls |-> "running"]
    /\ dlResult = [u \in Urls |-> NoContent]
    /\ dlExc = [u \in Urls |-> FALSE]
    /\ dlLog = {}
    /\ dlErrLog = {}
    /\ dlCollected = {}
    /\ dlDfs = <<>>
    /\ dlPc = "fetching"
    /\ dlRet = None

\* One request of the worker that runs download_single_file(url u).
Request(u) ==
    /\ UNCHANGED <<oiVars, vVars, pipeVars>>
    /\ dlPc = "fetching"
    /\ dlState[u] = "running"
    /\ \E resp \in Responses :
        LET step == DownloadAttempt(Len(dlHist[u]), RETRY_ATTEMPTS, resp) IN
        /\ dlHist' = [dlHist EXCEPT ![u] = Append(@, resp)]
        /\ dlState' = [dlState EXCEPT ![u] = IF step.done THEN "done" ELSE "running"]
        /\ dlResult' = [dlResult EXCEPT ![u] = IF step.done THEN step.result ELSE @]
        /\ dlExc' = [dlExc EXCEPT ![u] = step.raise]
        /\ dlLog' = IF step.log THEN dlLog \cup {u} ELSE dlLog
    /\ UNCHANGED <<dlErrLog, dlCollected, dlDfs, dlPc, dlRet>>

\* One iteration of `for future in as_completed(...)`: future.result(), then
\* the archive is opened and each inner file appended to dfs; a failure to
\* decode is printed and the URL skipped.
Collect(u) ==
    /\ UNCHANGED <<oiVars, vVars, pipeVars>>
    /\ dlPc = "fetching"
    /\ dlState[u] = "done"
    /\ u \notin dlCollected
    /\ dlCollected' = dlCollected \cup {u}
    /\ IF dlExc[u]
       THEN /\ dlPc' = "raised"
            /\ UNCHANGED <<dlDfs, dlErrLog>>
       ELSE /\ dlPc' = dlPc
            /\ dlDfs' = IF Truthy(dlResult[u]) /\ dlResult[u] = "zip"
                        THEN Append(dlDfs, u) ELSE dlDfs
            /\ dlErrLog' = IF Truthy(dlResult[u]) /\ dlResult[u] # "zip"
                           THEN dlErrLog \cup {u} ELSE dlErrLog
    /\ UNCHANGED <<dlHist, dlState, dlResult, dlExc, dlLog, dlRet>>

\* `if not dfs: return None` / `return pd.concat(dfs, ignore_index=True)`;
\* the returned frame is named by the URLs whose batches it concatenates.
FetchReturn ==
    /\ UNCHANGED <<oiVars, vVars, pipeVars>>
    /\ dlPc = "fetching"
    /\ dlCollected = Urls
    /\ dlPc' = "returned"
    /\ dlRet' = IF dlDfs = <<>> THEN None ELSE Frame({"raw"}, dlDfs)
    /\ UNCHANGED <<dlHist, dlState, dlResult, dlExc, dlLog, dlErrLog, dlCollected, dlDfs>>

NextDL ==
    \/ \E u \in Urls : Request(u)
    \/ \E u \in Urls : Collect(u)
    \/ FetchReturn

(***************************************************************************)
(* Step 5: the open-interest polling loop                                  *)
(***************************************************************************)
\* A page is the JSON array of one response: `n` snapshots, the last one
\* stamped `last` (epoch ms).  A page never holds more than `limit` rows.
PageSizes == {0, 200, PAGE_LIMIT - 1, PAGE_LIMIT}
Pages ==
    [kind : {"page"}, n : PageSizes \ {0}, last : {MINUTE_MS * t : t \in Timestamps}]
    \cup [kind : {"page"}, n : {0}, last : {0}]
OIResponses == Pages \cup {[kind |-> "exception", n |-> 0, last |-> 0]}

\* oi_data is kept as the chunks extended onto it: chunk <<k, n>> is the n
\* rows of the page the k-th request returned.
RECURSIVE SumRows(_)
SumRows(chunks) ==
    IF chunks = <<>> THEN 0 ELSE chunks[1][2] + SumRows(Tail(chunks))

\* `if len(data) < 500: break`
ShortPageStopsAtLimitToo(data) == data.n <= PAGE_LIMIT

ShortPage(data) == data.n < PAGE_LIMIT

InitOI ==
    /\ oiPc = "polling"
    /\ oiParams = [hasStart |-> FALSE, startTime |-> 0]
    /\ oiPages = <<>>
    /\ oi_data = <<>>
    /\ oiRequests = 0
    /\ oiError = FALSE

\* One iteration of `while True:` (lines 239-253).
PollPage ==
    /\ UNCHANGED <<dlVars, vVars, pipeVars>>
    /\ oiPc = "polling"
    /\ oiRequests < MaxPages
    /\ oiRequests' = oiRequests + 1
    /\ \E r \in OIResponses :
        IF r.kind = "exception"
        THEN \* except Exception: print, break
             /\ oiError' = TRUE
             /\ oiPc' = "done"
             /\ UNCHANGED <<oiPages, oi_data, oiParams>>
        ELSE /\ oiPages' = Append(oiPages, r)
             /\ oiError' = oiError
             /\ IF r.n = 0
                THEN \* if not data: break
                     /\ oiPc' = "done"
                     /\ UNCHANGED <<oi_data, oiParams>>
                ELSE /\ oi_data' = Append(oi_data, <<oiRequests + 1, r.n>>)
                     /\ IF ShortPage(r)
                        THEN /\ oiPc' = "done"
                             /\ UNCHANGED oiParams
                        ELSE /\ oiPc' = "polling"
                             /\ oiParams' = [hasStart |-> TRUE,
                                             startTime |-> r.last + MINUTE_MS]

NextOI == PollPage

(***************************************************************************)
(* validate_data                                                           *)
(***************************************************************************)
\* df['timestamp_utc'].duplicated(): row i repeats the key of an earlier row
Duplicated(rows, i) ==
    \E j \in 1..(i - 1) : rows[j].timestamp_utc = rows[i].timestamp_utc

\* the same mask for keep='last'
DuplicatedLast(rows, i) ==
    \E j \in (i + 1)..Len(rows) : rows[j].timestamp_utc = rows[i].timestamp_utc

RECURSIVE DropFrom(_, _)
\* rows i.. of `rows` without the duplicated ones
DropFrom(rows, i) ==
    IF i > Len(rows) THEN <<>>
    ELSE IF Duplicated(rows, i) THEN DropFrom(rows, i + 1)
    ELSE <<rows[i]>> \o DropFrom(rows, i + 1)

RECURSIVE DropFromLast(_, _)
DropFromLast(rows, i) ==
    IF i > Len(rows) THEN <<>>
    ELSE IF DuplicatedLast(rows, i) THEN DropFromLast(rows, i + 1)
    ELSE <<rows[i]>> \o DropFromLast(rows, i + 1)

\* df.drop_duplicates(subset=['timestamp_utc'], keep='last')
DropDuplicatesKeepLast(rows) == DropFromLast(rows, 1)

\* df.drop_duplicates(subset=['timestamp_utc'], keep='first')
DropDuplicates(rows) == DropFrom(rows, 1)

\* dupes = df['timestamp_utc'].duplicated().sum()
Dupes(rows) == Cardinality({i \in 1..Len(rows) : Duplicated(rows, i)})

\* The table validate_data returns; the null counts and the gap statistics
\* are printed only, the latter from a sorted copy: they change nothing.
ValidateData(rows) ==
    IF Dupes(rows) > 0 THEN DropDuplicates(rows) ELSE rows

\* Tables of at most n rows over the timestamps; the value of row i is i.
TablesUpTo(n) ==
    UNION {{[i \in 1..k |-> [timestamp_utc |-> f[i], ohlcv |-> i]] :
                f \in [1..k -> Timestamps]} : k \in 0..n}

InitV ==
    /\ vInput \in TablesUpTo(MaxLen)
    /\ vTable = vInput
    /\ vPrev = vInput
    /\ vRuns = 0

\* df = validate_data(df, name); run once on the input, then on its own output
Validate ==
    /\ UNCHANGED <<dlVars, oiVars, pipeVars>>
    /\ vRuns < 2
    /\ vPrev' = vTable
    /\ vTable' = ValidateData(vTable)
    /\ vRuns' = vRuns + 1
    /\ UNCHANGED vInput

NextV == Validate

(***************************************************************************)
(* The script: Step 1 to Step 7                                            *)
(***************************************************************************)
\* The value fields of row i of the archive at URL u.
RowValue(u, i) == u * 10 + i

\* The time cells of an archive file of at most n rows: only the first line
\* can be a header, and the provider writes the rows of a file in time order.
ArchiveTimes(n, cells) ==
    UNION {{f \in [1..k -> cells] :
               /\ \A i \in 2..k : f[i] # HeaderCell
               /\ \A i \in 2..(k - 1) : f[i] <= f[i + 1]
               /\ (k > 1 /\ f[1] # HeaderCell) => f[1] <= f[2]} : k \in 1..n}

\* pd.concat(dfs, ignore_index=True): the batches' rows, in completion order
RECURSIVE Concat(_)
Concat(batches) ==
    IF batches = <<>> THEN <<>> ELSE batches[1][2] \o Concat(Tail(batches))

\* pd.to_numeric(..., errors='coerce')
ToNumeric(cell) == IF cell = HeaderCell THEN NaN ELSE cell

\* Lines 131-137 (162-166, 183-187): open_time to numeric, rows without a
\* number dropped, the epoch count taken as the UTC instant timestamp_utc.
RECURSIVE Normalize(_, _)
Normalize(raw, col) ==
    IF raw = <<>> THEN <<>>
    ELSE LET t == ToNumeric(raw[1].open_time) IN
         (IF t = NaN THEN <<>>
          ELSE <<(("timestamp_utc" :> t) @@ (col :> raw[1].value))>>)
         \o Normalize(Tail(raw), col)

\* left.merge(right, on="timestamp_utc", how="inner"): unmatched rows dropped
RECURSIVE InnerMerge(_, _, _)
InnerMerge(left, right, col) ==
    IF left = <<>> THEN <<>>
    ELSE LET l == left[1]
             Match(r) == r.timestamp_utc = l.timestamp_utc
             m == SelectSeq(right, Match)
         IN  [i \in 1..Len(m) |-> l @@ (col :> m[i][col])]
             \o InnerMerge(Tail(left), right, col)

\* left.merge(right, on="timestamp_utc", how="left"): the left rows in their
\* order, each once per matching right row (in the right's order), or once
\* with NaN when none matches.
RECURSIVE LeftMerge(_, _, _)
LeftMerge(left, right, col) ==
    IF left = <<>> THEN <<>>
    ELSE LET l == left[1]
             Match(r) == r.timestamp_utc = l.timestamp_utc
             m == SelectSeq(right, Match)
         IN  (IF m = <<>> THEN <<l @@ (col :> NaN)>>
              ELSE [i \in 1..Len(m) |-> l @@ (col :> m[i][col])])
             \o LeftMerge(Tail(left), right, col)

\* Series.ffill(): an empty cell takes the last value above it, if any
RECURSIVE FFillFrom(_, _, _)
FFillFrom(rows, col, last) ==
    IF rows = <<>> THEN <<>>
    ELSE IF rows[1][col] = NaN
         THEN <<[rows[1] EXCEPT ![col] = last]>> \o FFillFrom(Tail(rows), col, last)
         ELSE <<rows[1]>> \o FFillFrom(Tail(rows), col, rows[1][col])

FFill(rows, col) == FFillFrom(rows, col, NaN)

\* (a merge that adds the column, empty, for a series that is None)
MergeOrEmptyColumn(table, series, col, fill) ==
    IF series.present
    THEN LET m == LeftMerge(table.rows, series.rows, col) IN
         Frame(table.cols \cup {col}, IF fill THEN FFill(m, col) ELSE m)
    ELSE Frame(table.cols \cup {col}, [i \in 1..Len(table.rows) |-> table.rows[i] @@ (col :> NaN)])

\* `if series is not None: full = full.merge(series, ...)`, for funding
\* followed by the ffill of the new column
MergeIfPresent(table, series, col, fill) ==
    IF series.present
    THEN LET m == LeftMerge(table.rows, series.rows, col) IN
         Frame(table.cols \cup {col}, IF fill THEN FFill(m, col) ELSE m)
    ELSE table

\* Step 6, lines 267-285: mark, index, funding (filled), open interest
MergeAll(primary, mk, ix, fu, oi) ==
    MergeIfPresent(
        MergeIfPresent(
            MergeIfPresent(
                MergeIfPresent(Frame({"timestamp_utc", "ohlcv"}, primary),
                               mk, "mark", FALSE),
                ix, "index", FALSE),
            fu, "fundingRate", TRUE),
        oi, "open_interest", FALSE)

\* all orders of the rows of a sequence
RECURSIVE Perms(_)
Perms(rows) ==
    IF rows = <<>> THEN {<<>>}
    ELSE UNION {{<<rows[i]>> \o p :
                    p \in Perms([j \in 1..(Len(rows) - 1) |->
                                    IF j < i THEN rows[j] ELSE rows[j + 1]])} :
                i \in 1..Len(rows)}

\* (no sort at all)
Unsorted(rows) == {rows}

\* full.sort_values("timestamp_utc"): the default kind is quicksort, which is
\* not stable, so rows of equal timestamp may come out in any order.
RECURSIVE SortValues(_)
SortValues(rows) ==
    IF rows = <<>> THEN {<<>>}
    ELSE LET lo == CHOOSE t \in {rows[i].timestamp_utc : i \in 1..Len(rows)} :
                       \A i \in 1..Len(rows) : t <= rows[i].timestamp_utc
             IsLo(r) == r.timestamp_utc = lo
             NotLo(r) == r.timestamp_utc # lo
         IN  {p \o q : p \in Perms(SelectSeq(rows, IsLo)),
                       q \in SortValues(SelectSeq(rows, NotLo))}

\* Step 7, lines 292-295: the tables sort_values then drop_duplicates can give
FinalTables(rows) == {DropDuplicates(s) : s \in SortValues(rows)}

\* `if df is None` of line 124, or an empty frame
MissingOrEmpty(ret) == ~ret.present \/ Normalize(ret.rows, "ohlcv") = <<>>

\* `if df is None:` (line 124)
Missing(ret) == ~ret.present

\* `if not dfs: return None` / `return pd.concat(dfs, ignore_index=True)`
FetchResult(batches) ==
    IF batches = <<>> THEN None ELSE Frame({"open_time", "value"}, Concat(batches))

\* Row i of an archive at URL u: its time cell and its value fields
Rows(n, u, times, timeCol, valCol) ==
    [i \in 1..n |-> (timeCol :> times[i]) @@ (valCol :> RowValue(u, i))]

\* What a whole fetch of a secondary series can return: None when no URL
\* gave a batch, else the concatenation of the batches in completion order.
\* Any sequence of rows is such a concatenation, so the fetch is followed
\* as one step; the value of a row is its position in the result.
FetchedTimes(n, cells) == UNION {[1..k -> cells] : k \in 1..n}

Init ==
    /\ pc = "klines"
    /\ pending = Urls
    /\ dfs = <<>>
    \* the scenario: the kline archives hold three rows between them, the
    \* other four sources two
    /\ rowsLeft = [klines |-> 3, other |-> 2]
    /\ klines = <<>>
    /\ df = <<>>
    /\ mark = None
    /\ index = None
    /\ funding = None
    /\ df_oi = None
    /\ full = None
    /\ saved = None

\* The archive of a later month holds no earlier minute than the archive of
\* an earlier month: the rows `f` of URL u fit the batches already appended.
InMonthOrder(batches, u, f) ==
    \A b \in 1..Len(batches) : \A i \in 1..Len(batches[b][2]) : \A j \in 1..Len(f) :
        LET t == batches[b][2][i].open_time IN
        (t # HeaderCell /\ f[j] # HeaderCell) =>
            IF batches[b][1] < u THEN t <= f[j] ELSE f[j] <= t

\* One future of fetch_binance_zip_parallel(SYMBOL, "klines", ...) completes
\* (lines 67-83): either nothing is appended (content None or empty, or an
\* archive that fails to decode), or the rows of the archive's file are.
CompleteArchive(u) ==
    /\ UNCHANGED <<dlVars, oiVars, vVars>>
    /\ pc = "klines"
    /\ u \in pending
    /\ pending' = pending \ {u}
    /\ \/ /\ dfs' = dfs
          /\ UNCHANGED rowsLeft
       \/ \E f \in ArchiveTimes(rowsLeft.klines, Timestamps \cup {HeaderCell}) :
             /\ InMonthOrder(dfs, u, f)
             /\ dfs' = Append(dfs, <<u, Rows(Len(f), u, f, "open_time", "value")>>)
             /\ rowsLeft' = [rowsLeft EXCEPT !.klines = @ - Len(f)]
    /\ UNCHANGED <<pc, klines, df, mark, index, funding, df_oi, full, saved>>

\* Step 1 after the fetch, lines 122-149
Step1 ==
    /\ UNCHANGED <<dlVars, oiVars, vVars>>
    /\ pc = "klines"
    /\ pending = {}
    /\ klines' = dfs
    /\ IF Missing(FetchResult(dfs))
       THEN \* raise Exception("Failed to fetch klines data!")
            /\ pc' = "aborted"
            /\ df' = df
       ELSE /\ df' = ValidateData(Normalize(FetchResult(dfs).rows, "ohlcv"))
            /\ pc' = "mark"
    /\ UNCHANGED <<pending, dfs, rowsLeft, mark, index, funding, df_oi, full, saved>>

\* Lines 157-170 and 178-191: the columns kept, the series validated
Secondary(ret, col) ==
    IF ret.present
    THEN Frame({"timestamp_utc", col}, ValidateData(Normalize(ret.rows, col)))
    ELSE None

\* Step 2, lines 155-170
Step2 ==
    /\ UNCHANGED <<dlVars, oiVars, vVars>>
    /\ pc = "mark"
    /\ \E ret \in {None} \cup {Frame({"open_time", "value"}, Rows(Len(f), 0, f, "open_time", "value")) :
                       f \in FetchedTimes(rowsLeft.other, Timestamps \cup {HeaderCell})} :
          /\ mark' = Secondary(ret, "mark")
          /\ rowsLeft' = [rowsLeft EXCEPT !.other = @ - Len(ret.rows)]
    /\ pc' = "index"
    /\ UNCHANGED <<pending, dfs, klines, df, index, funding, df_oi, full, saved>>

\* Step 3, lines 176-191
Step3 ==
    /\ UNCHANGED <<dlVars, oiVars, vVars>>
    /\ pc = "index"
    /\ \E ret \in {None} \cup {Frame({"open_time", "value"}, Rows(Len(f), 0, f, "open_time", "value")) :
                       f \in FetchedTimes(rowsLeft.other, Timestamps \cup {HeaderCell})} :
          /\ index' = Secondary(ret, "index")
          /\ rowsLeft' = [rowsLeft EXCEPT !.other = @ - Len(ret.rows)]
    /\ pc' = "funding"
    /\ UNCHANGED <<pending, dfs, klines, df, mark, funding, df_oi, full, saved>>

\* Step 4, lines 197-228: the batches concatenated, fundingTime renamed to
\* timestamp_utc; the series is not validated
Step4 ==
    /\ UNCHANGED <<dlVars, oiVars, vVars>>
    /\ pc = "funding"
    /\ \E ret \in {None} \cup {Frame({"timestamp_utc", "fundingRate"},
                                     Rows(Len(f), 0, f, "timestamp_utc", "fundingRate")) :
                       f \in FetchedTimes(rowsLeft.other, Timestamps)} :
          /\ funding' = ret
          /\ rowsLeft' = [rowsLeft EXCEPT !.other = @ - Len(ret.rows)]
    /\ pc' = "oi"
    /\ UNCHANGED <<pending, dfs, klines, df, mark, index, df_oi, full, saved>>

\* Step 5, lines 234-261: what the polling loop collected (all of it, or
\* what it had when a request failed) as a frame, or None when nothing
Step5 ==
    /\ UNCHANGED <<dlVars, oiVars, vVars>>
    /\ pc = "oi"
    /\ \E ret \in {None} \cup {Frame({"timestamp_utc", "open_interest"},
                                     Rows(Len(f), 0, f, "timestamp_utc", "open_interest")) :
                       f \in FetchedTimes(rowsLeft.other, Timestamps)} :
          /\ df_oi' = ret
          /\ rowsLeft' = [rowsLeft EXCEPT !.other = @ - Len(ret.rows)]
    /\ pc' = "merge"
    /\ UNCHANGED <<pending, dfs, klines, df, mark, index, funding, full, saved>>

\* Step 6, lines 267-285
Merge ==
    /\ UNCHANGED <<dlVars, oiVars, vVars>>
    /\ pc = "merge"
    /\ full' = MergeAll(df, mark, index, funding, df_oi)
    /\ pc' = "final"
    /\ UNCHANGED <<pending, dfs, rowsLeft, klines, df, mark, index, funding, df_oi, saved>>

\* Step 7, lines 292-309: sort, drop duplicates, to_parquet
Finalize ==
    /\ UNCHANGED <<dlVars, oiVars, vVars>>
    /\ pc = "final"
    /\ \E t \in FinalTables(full.rows) :
          /\ full' = Frame(full.cols, t)
          /\ saved' = Frame(full.cols, t)
    /\ pc' = "done"
    /\ UNCHANGED <<pending, dfs, rowsLeft, klines, df, mark, index, funding, df_oi>>

NextPipe ==
    \/ \E u \in Urls : CompleteArchive(u)
    \/ Step1
    \/ Step2
    \/ Step3
    \/ Step4
    \/ Step5
    \/ Merge
    \/ Finalize

(***************************************************************************)
(* The specifications                                                      *)
(***************************************************************************)
\* validate_data not in use
IdleV ==
    /\ vInput = <<>>
    /\ vTable = <<>>
    /\ vPrev = <<>>
    /\ vRuns = 0

StartDL == InitDL /\ InitOI /\ IdleV /\ Init
StartOI == InitDL /\ InitOI /\ IdleV /\ Init
StartV == InitDL /\ InitOI /\ InitV /\ Init
Start == InitDL /\ InitOI /\ IdleV /\ Init

SpecDL == StartDL /\ [][NextDL]_vars
SpecOI == StartOI /\ [][NextOI]_vars
SpecV == StartV /\ [][NextV]_vars
Spec == Start /\ [][NextPipe]_vars

(***************************************************************************)
(* Properties                                                              *)
(***************************************************************************)
\* a failed attempt: an exception raised, or a status other than 200 and 404
IsFailure(resp) == resp.kind = "exception" \/ resp.code \notin {200, 404}
IsOk(resp) == resp.kind = "status" /\ resp.code = 200
Is404(resp) == resp.kind = "status" /\ resp.code = 404

\* C4: download_single_file with 3 attempts.  After two failed attempts
\* (exception, or a status other than 200 and 404) a third request is still
\* made, and when it answers 200 the function returns that body, as it does
\* for a URL answered 200 at once; a 404 is the last response of its URL,
\* makes the function return None without raising, and the URL adds no batch.
RetryPolicy ==
    \A u \in Urls :
        LET h == dlHist[u] IN
        /\ (Len(h) = 2 /\ IsFailure(h[1]) /\ IsFailure(h[2])) => dlState[u] = "running"
        /\ (Len(h) = 3 /\ IsFailure(h[1]) /\ IsFailure(h[2]) /\ IsOk(h[3])) =>
              /\ dlState[u] = "done"
              /\ dlResult[u] = h[3].body
              /\ \A v \in Urls : dlHist[v] = <<h[3]>> =>
                    dlState[v] = "done" /\ dlResult[v] = dlResult[u]
        /\ \A i \in 1..Len(h) : Is404(h[i]) =>
              /\ i = Len(h)
              /\ dlState[u] = "done"
              /\ dlResult[u] = NoContent
              /\ ~dlExc[u]
              /\ \A k \in 1..Len(dlDfs) : dlDfs[k] # u
        /\ dlPc # "raised"

\* C4 witness: one URL failed twice (a 500, then an exception) and was then
\* answered 200, the other was answered 200 at once with the same body, and
\* the fetch returned both batches.
RetryPolicyWitness ==
    /\ dlPc = "returned"
    /\ \E u, v \in Urls :
          /\ u # v
          /\ Len(dlHist[u]) = 3
          /\ dlHist[u][1].kind = "status" /\ dlHist[u][1].code = 500
          /\ dlHist[u][2].kind = "exception"
          /\ IsOk(dlHist[u][3]) /\ dlHist[u][3].body = "zip"
          /\ dlHist[v] = <<dlHist[u][3]>>
          /\ Len(dlDfs) = 2

\* C10: at most 3 requests per URL; a URL whose 3 attempts all failed is
\* logged, returns None, raises nothing and adds no batch, and the fetch
\* still returns the batch of every URL that delivered an archive.
GiveUpIsLogged ==
    \A u \in Urls :
        LET h == dlHist[u] IN
        /\ Len(h) <= RETRY_ATTEMPTS
        /\ (Len(h) = RETRY_ATTEMPTS /\ \A i \in 1..Len(h) : IsFailure(h[i])) =>
              /\ dlState[u] = "done"
              /\ dlResult[u] = NoContent
              /\ ~dlExc[u]
              /\ u \in dlLog
              /\ \A k \in 1..Len(dlDfs) : dlDfs[k] # u
        /\ dlPc # "raised"
        /\ (dlPc = "returned" /\ dlResult[u] = "zip") =>
              /\ dlRet.present
              /\ \E k \in 1..Len(dlRet.rows) : dlRet.rows[k] = u

\* C5: the polling loop stops at the first short page and not before: while
\* it polls every page so far was full, once it stopped without an error the
\* last page was short (possibly empty), all earlier ones full, one request
\* was made per page, and oi_data is the pages' rows in order.
PaginationStopsAtShortPage ==
    LET k == Len(oiPages)
        nonEmpty == {i \in 1..k : oiPages[i].n > 0}
    IN  /\ \A i \in 1..(k - 1) : oiPages[i].n = PAGE_LIMIT
        /\ oiPc = "polling" => \A i \in 1..k : oiPages[i].n = PAGE_LIMIT
        /\ (oiPc = "done" /\ ~oiError) => (k > 0 /\ oiPages[k].n < PAGE_LIMIT)
        /\ ~oiError => oiRequests = k
        /\ Len(oi_data) = Cardinality(nonEmpty)
        /\ \A i \in 1..Len(oi_data) : oi_data[i] = <<i, oiPages[i].n>>
        /\ (k = 3 /\ oiPages[3].n = 200) =>
              (oiPc = "done" /\ SumRows(oi_data) = 1200 /\ (~oiError => oiRequests = 3))

\* C5 witness: pages of 500, 500 and 200 rows: 1200 rows after three requests.
PaginationWitness ==
    /\ oiPc = "done"
    /\ ~oiError
    /\ Len(oiPages) = 3
    /\ oiPages[1].n = 500 /\ oiPages[2].n = 500 /\ oiPages[3].n = 200
    /\ oiRequests = 3
    /\ SumRows(oi_data) = 1200

\* the rows of `inp` that are the first to carry their timestamp
FirstIndexes(inp) ==
    {i \in 1..Len(inp) :
        \A j \in 1..Len(inp) : inp[j].timestamp_utc = inp[i].timestamp_utc => i <= j}

IsFirstOccurrences(out, inp) ==
    /\ Len(out) = Cardinality(FirstIndexes(inp))
    /\ \A i \in FirstIndexes(inp) :
          out[Cardinality({j \in FirstIndexes(inp) : j <= i})] = inp[i]

UniqueTimes(rows) ==
    \A i, j \in 1..Len(rows) : rows[i].timestamp_utc = rows[j].timestamp_utc => i = j

\* C9: validate_data returns exactly the rows that are the first, in input
\* order, to carry their timestamp, unchanged and in their input order; run
\* on its own output, or on a table of unique timestamps, it removes nothing.
ValidateKeepsFirst ==
    /\ vRuns >= 1 => IsFirstOccurrences(vTable, vPrev)
    /\ vRuns = 1 => vPrev = vInput
    /\ vRuns = 2 => vTable = vPrev
    /\ (vRuns >= 1 /\ UniqueTimes(vPrev)) => vTable = vPrev

\* C9 witness: an unsorted table whose first timestamp recurs after another
\* row; both runs done, the first removed one row.
ValidateWitness ==
    /\ vRuns = 2
    /\ Len(vInput) = 3
    /\ vInput[1].timestamp_utc = 2 /\ vInput[2].timestamp_utc = 1 /\ vInput[3].timestamp_utc = 2
    /\ vTable = <<vInput[1], vInput[2]>>

\* C1: the timestamps of consecutive rows of the saved table strictly increase.
SavedStrictlyIncreasing ==
    saved.present =>
        \A i \in 1..(Len(saved.rows) - 1) :
            saved.rows[i].timestamp_utc < saved.rows[i + 1].timestamp_utc

Times(rows, col) == [i \in 1..Len(rows) |-> rows[i][col]]

\* C1 witness: kline batches appended out of time order with a repeated
\* timestamp, a funding series with a repeated timestamp, two rows saved.
SavedStrictlyIncreasingWitness ==
    /\ pc = "done"
    /\ Times(Concat(klines), "open_time") = <<2, 1, 2>>
    /\ funding.present
    /\ Times(funding.rows, "timestamp_utc") = <<1, 1>>
    /\ Len(saved.rows) = 2

\* the rows of the saved table whose timestamp the funding series has
Bearing(t) ==
    funding.present /\ \E k \in 1..Len(funding.rows) : funding.rows[k].timestamp_utc = t

\* C2: in the saved table a row between two funding-bearing rows (in time),
\* itself without a funding timestamp, has the fundingRate of the latest
\* earlier funding-bearing row.
ForwardFillInTimeOrder ==
    (saved.present /\ funding.present) =>
        \A i \in 1..Len(saved.rows) :
            LET t == saved.rows[i].timestamp_utc
                before == {a \in 1..Len(saved.rows) :
                              saved.rows[a].timestamp_utc < t /\ Bearing(saved.rows[a].timestamp_utc)}
                after == {b \in 1..Len(saved.rows) :
                              saved.rows[b].timestamp_utc > t /\ Bearing(saved.rows[b].timestamp_utc)}
            IN  (~Bearing(t) /\ before # {} /\ after # {}) =>
                    \E a \in before :
                        /\ \A c \in before : saved.rows[c].timestamp_utc <= saved.rows[a].timestamp_utc
                        /\ saved.rows[i].fundingRate = saved.rows[a].fundingRate

SecondaryColumns ==
    {<<mark, "mark">>, <<index, "index">>, <<funding, "fundingRate">>, <<df_oi, "open_interest">>}

\* C3: the saved table has exactly the timestamps of the fetched kline rows;
\* a mark, index or open-interest field holds a value of a row of that series
\* with the same timestamp, and is empty when the series has no such row.
LeftJoinExact ==
    saved.present =>
        /\ {saved.rows[i].timestamp_utc : i \in 1..Len(saved.rows)}
             = {ToNumeric(r.open_time) : r \in {Concat(klines)[i] : i \in 1..Len(Concat(klines))}} \ {NaN}
        /\ \A sc \in SecondaryColumns \ {<<funding, "fundingRate">>} :
              sc[1].present =>
                  \A i \in 1..Len(saved.rows) :
                      LET m == {sc[1].rows[k][sc[2]] :
                                   k \in {k \in 1..Len(sc[1].rows) :
                                             sc[1].rows[k].timestamp_utc = saved.rows[i].timestamp_utc}}
                      IN  IF m = {} THEN saved.rows[i][sc[2]] = NaN
                          ELSE saved.rows[i][sc[2]] \in m

\* C3 witness: klines at minutes 1 and 2, mark prices at minutes 1 and 3: the
\* saved table has rows 1 and 2, the mark field set at 1 and empty at 2.
LeftJoinWitness ==
    /\ pc = "done"
    /\ mark.present
    /\ Times(mark.rows, "timestamp_utc") = <<1, 3>>
    /\ Len(saved.rows) = 2
    /\ saved.rows[1].timestamp_utc = 1 /\ saved.rows[1].mark # NaN
    /\ saved.rows[2].timestamp_utc = 2 /\ saved.rows[2].mark = NaN

\* the kline batches in the order of their URLs
InUrlOrder(batches) ==
    [k \in 1..Len(batches) |->
        batches[CHOOSE i \in 1..Len(batches) :
                    Cardinality({j \in 1..Len(batches) : batches[j][1] <= batches[i][1]}) = k]]

\* C6: the saved table is one the same archives give when the kline batches
\* are appended in URL order, whatever order they completed in.
CompletionOrderIrrelevant ==
    saved.present =>
        \E t \in FinalTables(MergeAll(ValidateData(Normalize(Concat(InUrlOrder(klines)), "ohlcv")),
                                      mark, index, funding, df_oi).rows) :
            t = saved.rows

\* C7: the run aborts exactly when the kline fetch appended no batch, and
\* then nothing is merged or saved; otherwise every step up to the write is
\* taken and the finished run has written the table.
OnlyEmptyKlinesAborts ==
    /\ pc = "aborted" => (klines = <<>> /\ ~full.present /\ ~saved.present)
    /\ pc \notin {"klines", "aborted"} => klines # <<>>
    /\ pc \notin {"done", "aborted"} => ENABLED NextPipe
    /\ pc = "done" <=> saved.present

\* C7 witness: one kline URL gave nothing, the other a header line and a
\* repeated timestamp, no secondary series was available, and the table was
\* written.
OnlyEmptyKlinesAbortsWitness ==
    /\ pc = "done"
    /\ Len(klines) = 1
    /\ Times(Concat(klines), "open_time") = <<HeaderCell, 1, 1>>
    /\ ~mark.present /\ ~index.present /\ ~funding.present /\ ~df_oi.present
    /\ Len(saved.rows) = 1

\* C8 as amended: a secondary series that is None leaves no column in the
\* saved table (neither in the frame nor in a row), the other columns are
\* there, and the run goes on to the write.
AbsentSeriesColumnsOmitted ==
    /\ pc \in {"mark", "index", "funding", "oi", "merge", "final"} => ENABLED NextPipe
    /\ saved.present =>
          \A sc \in SecondaryColumns :
              /\ sc[1].present <=> sc[2] \in saved.cols
              /\ \A i \in 1..Len(saved.rows) : DOMAIN saved.rows[i] = saved.cols

\* C8 witness: no mark series, an index series, a row saved.
AbsentSeriesWitness ==
    /\ pc = "done"
    /\ ~mark.present
    /\ index.present
    /\ Len(saved.rows) > 0
    /\ "mark" \notin saved.cols

\* C8 as stated: a secondary series that is None still has its columns in
\* the saved table, empty in every row.
AbsentSeriesColumnsAllNull ==
    saved.present =>
        \A sc \in SecondaryColumns :
            ~sc[1].present =>
                /\ sc[2] \in saved.cols
                /\ \A i \in 1..Len(saved.rows) : saved.rows[i][sc[2]] = NaN
====
